---- MODULE Spec2Model ----
(***************************************************************************)
(* A model of src/main.py: get_video_metadata, _extract_ffprobe_data and   *)
(* _convert_duration.                                                      *)
(*                                                                         *)
(* Conventions.                                                            *)
(*  - A JSON / Python value is a record [k, s, n]: k is its kind           *)
(*    ("absent" for a missing dict key, "null", "num", "str", "dict"),     *)
(*    s the characters of a string (a tuple of one-character strings) and  *)
(*    n the value of an integer.                                           *)
(*  - A float is kept exactly: a duration is an integer number of tenths   *)
(*    of a second, a frame rate is a reduced fraction [num, den].          *)
(*  - An evaluation that may raise yields [exc, v]: exc = "" and the value *)
(*    v, or exc the name of the Python exception raised.                   *)
(***************************************************************************)
EXTENDS Integers, Sequences, FiniteSets, TLC

VARIABLES pc, path_exists, tag, tagCalled, probeCalled, probeOutcome,
          ffprobe_data, idx, video_stream_data, audio_stream_data,
          ffprobe_duration, result, seconds, friendly

vars == <<pc, path_exists, tag, tagCalled, probeCalled, probeOutcome,
          ffprobe_data, idx, video_stream_data, audio_stream_data,
          ffprobe_duration, result, seconds, friendly>>

\* ------------------------------------------------------------------ bounds

\* The longest streams sequence a probe output carries in the model.
MaxStreams == 2

\* The formatter's inputs run over every duration from 0 to this many tenths
\* of a second (a little over two hours), plus the samples of ExtraDurations.
MaxTenths == 75000

\* ------------------------------------------------------------ Python values

Absent == [k |-> "absent", s |-> <<>>, n |-> 0]
Null == [k |-> "null", s |-> <<>>, n |-> 0]
Num(n) == [k |-> "num", s |-> <<>>, n |-> n]
Str(s) == [k |-> "str", s |-> s, n |-> 0]
Dict(n) == [k |-> "dict", s |-> <<>>, n |-> n]

\* Python's None as the value of a variable or of a record field.
None == [k |-> "None"]

Ok(v) == [exc |-> "", v |-> v]
Raise(e) == [exc |-> e, v |-> None]

\* dict.get(key, default): the default only when the key is missing.
Get(x, default) == IF x.k = "absent" THEN default ELSE x

Digits == <<"0", "1", "2", "3", "4", "5", "6", "7", "8", "9">>

IsDigit(c) == \E i \in 1..10 : Digits[i] = c

DigitVal(c) == (CHOOSE i \in 1..10 : Digits[i] = c) - 1

AllDigits(s) == Len(s) > 0 /\ \A i \in 1..Len(s) : IsDigit(s[i])

RECURSIVE ParseNat(_)
ParseNat(s) ==
    IF s = <<>> THEN 0
    ELSE 10 * ParseNat(SubSeq(s, 1, Len(s) - 1)) + DigitVal(s[Len(s)])

HasSign(s) == Len(s) > 0 /\ s[1] \in {"-", "+"}

Unsigned(s) == IF HasSign(s) THEN Tail(s) ELSE s

Signed(s, n) == IF HasSign(s) /\ s[1] = "-" THEN 0 - n ELSE n

\* The strings int() accepts: an optional sign and one or more digits.
IsIntLiteral(s) == AllDigits(Unsigned(s))

\* int(x) of a JSON value.
PyInt(x) ==
    CASE x.k = "num" -> Ok(x.n)
      [] x.k = "str" -> IF IsIntLiteral(x.s)
                        THEN Ok(Signed(x.s, ParseNat(Unsigned(x.s))))
                        ELSE Raise("ValueError")
      [] OTHER -> Raise("TypeError")

\* The position of the first "." of s, or 0.
DotAt(s) ==
    IF \E i \in 1..Len(s) : s[i] = "."
    THEN CHOOSE i \in 1..Len(s) : s[i] = "." /\ \A j \in 1..(i - 1) : s[j] # "."
    ELSE 0

\* The strings float() accepts, as far as the model's samples go: an optional
\* sign, digits, and optionally a point followed by one digit.
IsFloatLiteral(s) ==
    LET u == Unsigned(s)
        d == DotAt(u)
    IN  IF d = 0 THEN AllDigits(u)
        ELSE /\ AllDigits(SubSeq(u, 1, d - 1))
             /\ Len(u) = d + 1
             /\ IsDigit(u[d + 1])

\* float(x) of a JSON value, in tenths.
PyFloat(x) ==
    CASE x.k = "num" -> Ok(10 * x.n)
      [] x.k = "str" ->
            IF IsFloatLiteral(x.s)
            THEN LET u == Unsigned(x.s)
                     d == DotAt(u)
                     t == IF d = 0 THEN 10 * ParseNat(u)
                          ELSE 10 * ParseNat(SubSeq(u, 1, d - 1)) + DigitVal(u[d + 1])
                 IN  Ok(Signed(x.s, t))
            ELSE Raise("ValueError")
      [] OTHER -> Raise("TypeError")

\* str.split(sep): the pieces of s between the occurrences of sep.
RECURSIVE Split(_, _)
Split(s, sep) ==
    IF \E i \in 1..Len(s) : s[i] = sep
    THEN LET p == CHOOSE i \in 1..Len(s) : s[i] = sep /\ \A j \in 1..(i - 1) : s[j] # sep
         IN  <<SubSeq(s, 1, p - 1)>> \o Split(SubSeq(s, p + 1, Len(s)), sep)
    ELSE <<s>>

RECURSIVE Gcd(_, _)
Gcd(a, b) == IF b = 0 THEN a ELSE Gcd(b, a % b)

Abs(a) == IF a < 0 THEN 0 - a ELSE a

\* The float num / den, den # 0, as a fraction in lowest terms.
Frac(num, den) ==
    LET g == Gcd(Abs(num), Abs(den))
        sg == IF den < 0 THEN 0 - 1 ELSE 1
    IN  [num |-> (sg * num) \div g, den |-> (sg * den) \div g]

\* ------------------------------------------------------- _convert_duration

\* The decimal digits of a natural number.
RECURSIVE Decimal(_)
Decimal(n) == IF n < 10 THEN <<Digits[n + 1]>> ELSE Decimal(n \div 10) \o <<Digits[(n % 10) + 1]>>

\* The format spec 02d: at least two digits, padded with zeros on the left.
Fmt02d(n) == IF n < 10 THEN <<"0">> \o Decimal(n) ELSE Decimal(n)

\* round(x) of x tenths: to the nearest integer, a tie to the even one.
PyRound(t) ==
    LET q == t \div 10
        r == t % 10
    IN  IF r < 5 THEN q
        ELSE IF r > 5 THEN q + 1
        ELSE IF q % 2 = 0 THEN q ELSE q + 1

\* A variant of ConvertDuration: the seconds rounded first, so that a rounded
\* 60 is carried into the minutes.
ConvertDurationCarry(t) ==
    LET total == PyRound(t)
    IN  Fmt02d(total \div 3600) \o <<":">> \o Fmt02d((total % 3600) \div 60)
            \o <<":">> \o Fmt02d(total % 60)

\* _convert_duration(seconds), seconds in tenths.
ConvertDuration(t) ==
    LET hours == t \div 36000
        minutes == (t % 36000) \div 600
        seconds_remainder == PyRound(t % 600)
    IN  Fmt02d(hours) \o <<":">> \o Fmt02d(minutes) \o <<":">> \o Fmt02d(seconds_remainder)

\* ------------------------------------------------- schema (lines 44-91)

\* A str field of a schema: a string is taken as it is, anything else fails.
StrField(x) == IF x.k = "str" THEN Ok(x.s) ELSE Raise("ValidationError")

\* An int field of a schema: an integer, or a string that reads as one.
IntField(x) ==
    CASE x.k = "num" -> Ok(x.n)
      [] x.k = "str" /\ IsIntLiteral(x.s) -> Ok(Signed(x.s, ParseNat(Unsigned(x.s))))
      [] OTHER -> Raise("ValidationError")

\* A dict field of a schema.
DictField(x) == IF x.k = "dict" THEN Ok(x) ELSE Raise("ValidationError")

\* The first exception among the results rs (evaluated in order), or "".
FirstExc(rs) ==
    IF \E i \in 1..Len(rs) : rs[i].exc # ""
    THEN rs[CHOOSE i \in 1..Len(rs) : rs[i].exc # "" /\ \A j \in 1..(i - 1) : rs[j].exc = ""].exc
    ELSE ""

\* --------------------------------------------------- stream entries (input)

NA == <<"N", "/", "A">>
DefaultFrameRate == <<"0", "/", "1">>
VideoType == <<"v", "i", "d", "e", "o">>
AudioType == <<"a", "u", "d", "i", "o">>

BlankStream ==
    [codec_type |-> Absent, codec_name |-> Absent, profile |-> Absent,
     width |-> Absent, height |-> Absent, bit_rate |-> Absent,
     avg_frame_rate |-> Absent, pix_fmt |-> Absent, sample_rate |-> Absent,
     channels |-> Absent, channel_layout |-> Absent]

\* A complete video stream, as ffprobe prints it.
VideoFull ==
    [BlankStream EXCEPT !.codec_type = Str(VideoType),
                        !.codec_name = Str(<<"h", "2", "6", "4">>),
                        !.profile = Str(<<"H", "i", "g", "h">>),
                        !.width = Num(1920), !.height = Num(1080),
                        !.bit_rate = Str(<<"5", "0", "0", "0">>),
                        !.avg_frame_rate = Str(<<"3", "0", "0", "0", "0", "/", "1", "0", "0", "1">>),
                        !.pix_fmt = Str(<<"y", "u", "v">>)]

\* A video stream with nothing but its type.
VideoBare == [BlankStream EXCEPT !.codec_type = Str(VideoType)]

\* A video stream whose frame rate is 0/0 and whose other fields are missing.
VideoZeroRate ==
    [BlankStream EXCEPT !.codec_type = Str(VideoType),
                        !.avg_frame_rate = Str(<<"0", "/", "0">>)]

\* Another complete video stream, every field different from VideoFull's;
\* its frame rate has a zero denominator and a non-zero numerator.
VideoZeroDen ==
    [BlankStream EXCEPT !.codec_type = Str(VideoType),
                        !.codec_name = Str(<<"v", "p", "9">>),
                        !.profile = Str(<<"M", "a", "i", "n">>),
                        !.width = Num(640), !.height = Str(<<"4", "8", "0">>),
                        !.bit_rate = Num(900),
                        !.avg_frame_rate = Str(<<"2", "5", "/", "0">>),
                        !.pix_fmt = Str(<<"r", "g", "b">>)]

\* A video stream with a non-numeric bit rate.
VideoBadBitRate == [VideoFull EXCEPT !.bit_rate = Str(NA)]

\* A video stream whose frame rate is not of the form N/D.
VideoBadFrameRate == [VideoFull EXCEPT !.avg_frame_rate = Str(<<"2", "9", ".", "9">>)]

\* A complete audio stream.
AudioFull ==
    [BlankStream EXCEPT !.codec_type = Str(AudioType),
                        !.codec_name = Str(<<"a", "a", "c">>),
                        !.sample_rate = Str(<<"4", "8", "0", "0", "0">>),
                        !.channels = Num(2),
                        !.bit_rate = Str(<<"1", "2", "8">>),
                        !.channel_layout = Str(<<"s", "t", "e", "r", "e", "o">>)]

\* An audio stream with a non-numeric bit rate.
AudioBadBitRate == [AudioFull EXCEPT !.bit_rate = Str(NA)]

\* A stream that is neither video nor audio.
SubtitleStream ==
    [BlankStream EXCEPT !.codec_type = Str(<<"s", "u", "b">>),
                        !.codec_name = Str(<<"s", "r", "t">>)]

StreamSamples ==
    {VideoFull, VideoZeroDen, VideoBare, VideoZeroRate,
     VideoBadBitRate, VideoBadFrameRate,
     AudioFull, AudioBadBitRate, SubtitleStream}

\* Every streams sequence of at most MaxStreams entries.
StreamSeqs == UNION {[1..n -> StreamSamples] : n \in 0..MaxStreams}

\* ------------------------------------------ stream mapping (lines 155-186)

\* A variant of FrameRate: the division not guarded.
FrameRateUnguarded(num, den) ==
    IF den = 0 THEN Raise("ZeroDivisionError") ELSE Ok(Frac(num, den))

\* (num / den) if den else 0.0 (line 169).
FrameRate(num, den) == IF den # 0 THEN Ok(Frac(num, den)) ELSE Ok(Frac(0, 1))

\* num, den = map(int, avg_frame_rate_str.split("/")) (lines 159-160).
ParseFrameRate(stream) ==
    LET afr == Get(stream.avg_frame_rate, Str(DefaultFrameRate))
    IN  IF afr.k # "str" THEN Raise("AttributeError")
        ELSE LET parts == Split(afr.s, "/")
             IN  IF Len(parts) = 2 /\ IsIntLiteral(parts[1]) /\ IsIntLiteral(parts[2])
                 THEN LET num == Signed(parts[1], ParseNat(Unsigned(parts[1])))
                          den == Signed(parts[2], ParseNat(Unsigned(parts[2])))
                      IN  FrameRate(num, den)
                 ELSE Raise("ValueError")

\* VideoStreamMetadata(...) of a video entry (lines 159-171, schema 44-53).
BuildVideo(stream) ==
    LET rate == ParseFrameRate(stream)
        bit_rate == PyInt(Get(stream.bit_rate, Num(0)))
        codec_name == StrField(Get(stream.codec_name, Str(NA)))
        profile == StrField(Get(stream.profile, Str(NA)))
        width == IntField(Get(stream.width, Num(0)))
        height == IntField(Get(stream.height, Num(0)))
        pixel_format == StrField(Get(stream.pix_fmt, Str(NA)))
        exc == FirstExc(<<rate, bit_rate, codec_name, profile, width, height, pixel_format>>)
    IN  IF exc # "" THEN Raise(exc)
        ELSE Ok([k |-> "VideoStreamMetadata",
                 codec_name |-> codec_name.v, profile |-> profile.v,
                 width |-> width.v, height |-> height.v,
                 bit_rate |-> bit_rate.v, avg_frame_rate |-> rate.v,
                 pixel_format |-> pixel_format.v])

\* AudioStreamMetadata(...) of an audio entry (lines 175-181, schema 56-63).
BuildAudio(stream) ==
    LET sample_rate == PyInt(Get(stream.sample_rate, Num(0)))
        bit_rate == PyInt(Get(stream.bit_rate, Num(0)))
        codec_name == StrField(Get(stream.codec_name, Str(NA)))
        channels == IntField(Get(stream.channels, Num(0)))
        channel_layout == StrField(Get(stream.channel_layout, Str(NA)))
        exc == FirstExc(<<sample_rate, bit_rate, codec_name, channels, channel_layout>>)
    IN  IF exc # "" THEN Raise(exc)
        ELSE Ok([k |-> "AudioStreamMetadata",
                 codec_name |-> codec_name.v, sample_rate |-> sample_rate.v,
                 channels |-> channels.v, bit_rate |-> bit_rate.v,
                 channel_layout |-> channel_layout.v])

\* A variant of SlotFree: the "not yet seen" test left out.
SlotAlwaysFree(stream_data) == TRUE

\* "not video_stream_data" / "not audio_stream_data" (lines 157, 174): a
\* sub-record, once built, is truthy.
SlotFree(stream_data) == stream_data = None

\* A variant of StreamExcCaught: only schema errors caught.
StreamExcCaughtSchemaOnly(exc) == exc = "ValidationError"

\* except Exception (line 183): every exception of the loop body is caught.
StreamExcCaught(exc) == TRUE

\* One pass of the loop body (lines 156-186) over a stream: the exception the
\* body lets escape if any, and the two sub-records after it.
ProcessStream(stream, v, a) ==
    IF stream.codec_type = Str(VideoType) /\ SlotFree(v)
    THEN LET r == BuildVideo(stream)
         IN  IF r.exc = "" THEN [exc |-> "", video |-> r.v, audio |-> a]
             ELSE IF StreamExcCaught(r.exc) THEN [exc |-> "", video |-> v, audio |-> a]
             ELSE [exc |-> r.exc, video |-> v, audio |-> a]
    ELSE IF stream.codec_type = Str(AudioType) /\ SlotFree(a)
    THEN LET r == BuildAudio(stream)
         IN  IF r.exc = "" THEN [exc |-> "", video |-> v, audio |-> r.v]
             ELSE IF StreamExcCaught(r.exc) THEN [exc |-> "", video |-> v, audio |-> a]
             ELSE [exc |-> r.exc, video |-> v, audio |-> a]
    ELSE [exc |-> "", video |-> v, audio |-> a]

\* ---------------------------------------------------- inputs of the model

\* A float, in tenths.
Flt(t) == [k |-> "float", s |-> <<>>, n |-> t]

\* bool(x) of a value: None, 0 and 0.0 are false.
Truthy(x) == x.k \notin {"None", "null"} /\ ~(x.k \in {"num", "float"} /\ x.n = 0)

\* What TinyTag.get does (line 140): it raises, or it returns a tag object
\* whose duration is None or a float.
TagDurations == {Null, Flt(0), Flt(600), Flt(425)}

TagOutcomes ==
    {Raise("TinyTagException")}
        \cup {Ok([k |-> "TinyTag", duration |-> d, title |-> Str(<<"c", "l", "i", "p">>)]) :
                d \in TagDurations}

\* The format section's duration field: missing, "0", "125.0", "-5.0", or text.
DurationSamples ==
    {Absent, Str(<<"0">>), Str(<<"1", "2", "5", ".", "0">>),
     Str(<<"-", "5", ".", "0">>), Str(NA)}

\* The format section's bit_rate field: missing, an integer, an integer as a
\* string, a decimal string, text.
BitRateSamples ==
    {Absent, Num(128999), Str(<<"2", "5", "0", "0">>),
     Str(<<"1", "5", "0", "0", ".", "5">>), Str(NA)}

\* The format section's tags field: a mapping, or not a mapping (a missing
\* one is the case of EmptyFormat).
TagsSamples == {Dict(1), Str(<<"x">>)}

List(items) == [k |-> "list", items |-> items]

FormatSamples ==
    {[k |-> "dict", duration |-> d, bit_rate |-> b, tags |-> g] :
        d \in DurationSamples, b \in BitRateSamples, g \in TagsSamples}

\* The empty dict {} (line 114) and the empty format section (line 152).
EmptyDict == [format |-> Absent, streams |-> Absent]
EmptyFormat == [k |-> "dict", duration |-> Absent, bit_rate |-> Absent, tags |-> Absent]

\* What ffmpeg.probe does (line 109): it returns the parsed document; or
\* ffprobe exits non-zero and it raises ffmpeg.Error; or ffprobe's output is
\* not JSON and json.loads raises JSONDecodeError, which is no ffmpeg.Error.
ProbeOutcomes ==
    {Raise("ffmpeg.Error"), Raise("JSONDecodeError")}
        \cup {Ok([format |-> f, streams |-> List(s)]) : f \in FormatSamples, s \in StreamSeqs}

\* ---------------------------------------------------------------- results

Pending == [kind |-> "pending", exc |-> "", value |-> None]
Raised(e) == [kind |-> "raised", exc |-> e, value |-> None]
Returned(v) == [kind |-> "returned", exc |-> "", value |-> v]

\* ----------------------------------------- _extract_ffprobe_data (105-117)

\* except ffmpeg.Error (line 110).
ProbeExcCaught(exc) == exc = "ffmpeg.Error"

ExtractFfprobeData(probe) ==
    IF probe.exc = "" THEN Ok(probe.v)
    ELSE IF ProbeExcCaught(probe.exc) THEN Ok(EmptyDict)
    ELSE Raise(probe.exc)

\* ------------------------------------------- get_video_metadata (123-219)

\* A variant of PathMissing: the check left out.
PathMissingNoCheck(exists) == FALSE

\* not path.exists() (line 130).
PathMissing(exists) == ~exists

\* ffprobe_data.get("format", {}) (line 152).
FormatInfo(data) == Get(data.format, EmptyFormat)

\* ffprobe_data.get("streams", []) (line 155).
Streams(data) == Get(data.streams, List(<<>>)).items

\* A variant of ReconcileDuration: the tag reader's duration preferred.
ReconcileDurationTagFirst(p, tg) ==
    IF Truthy(tg) /\ Truthy(tg.duration) THEN tg.duration.n
    ELSE IF p > 0 THEN p
    ELSE 0

\* Lines 197-203.
ReconcileDuration(p, tg) ==
    IF p > 0 THEN p
    ELSE IF Truthy(tg) /\ Truthy(tg.duration) THEN tg.duration.n
    ELSE 0

\* int(format_info.get("bit_rate", 0)) // 1000 (line 213).
OverallBitrate(format_info) ==
    LET r == PyInt(Get(format_info.bit_rate, Num(0)))
    IN  IF r.exc # "" THEN r ELSE Ok(r.v \div 1000)

\* ContentCreatorMetadata(...) (lines 204-217, schema 66-91).
BuildRecord(format_info, tg, overall, v, a) ==
    LET kbps == OverallBitrate(format_info)
        raw_tags == DictField(Get(format_info.tags, Dict(0)))
        exc == FirstExc(<<kbps, raw_tags>>)
    IN  IF exc # "" THEN Raise(exc)
        ELSE Ok([k |-> "ContentCreatorMetadata",
                 title |-> IF Truthy(tg) THEN tg.title ELSE Null,
                 duration_seconds |-> overall,
                 duration_friendly |-> ConvertDuration(overall),
                 overall_bitrate_kbps |-> kbps.v,
                 video_stream |-> v, audio_stream |-> a,
                 raw_tags |-> raw_tags.v])

Init ==
    /\ pc = "start"
    /\ path_exists \in BOOLEAN
    /\ tag = None
    /\ tagCalled = FALSE
    /\ probeCalled = FALSE
    /\ probeOutcome = ""
    /\ ffprobe_data = EmptyDict
    /\ idx = 0
    /\ video_stream_data = None
    /\ audio_stream_data = None
    /\ ffprobe_duration = 0
    /\ result = Pending
    /\ seconds = 0
    /\ friendly = <<>>

\* Lines 128-135: the path check.
Validate ==
    /\ pc = "start"
    /\ IF PathMissing(path_exists)
       THEN pc' = "done" /\ result' = Raised("FileNotFoundError")
       ELSE pc' = "tags" /\ result' = result
    /\ UNCHANGED <<path_exists, tag, tagCalled, probeCalled, probeOutcome, ffprobe_data,
                   idx, video_stream_data, audio_stream_data, ffprobe_duration,
                   seconds, friendly>>

\* Lines 138-145: the tag reader, every exception swallowed.
ReadTags ==
    /\ pc = "tags"
    /\ \E o \in TagOutcomes :
          tag' = IF o.exc = "" THEN o.v ELSE None
    /\ tagCalled' = TRUE
    /\ pc' = "probe"
    /\ UNCHANGED <<path_exists, probeCalled, probeOutcome, ffprobe_data, idx,
                   video_stream_data, audio_stream_data, ffprobe_duration, result,
                   seconds, friendly>>

\* Lines 149-152: the probe.
Probe ==
    /\ pc = "probe"
    /\ \E o \in ProbeOutcomes :
          LET r == ExtractFfprobeData(o)
          IN  /\ probeOutcome' = o.exc
              /\ IF r.exc # ""
                 THEN /\ pc' = "done"
                      /\ result' = Raised(r.exc)
                      /\ UNCHANGED <<ffprobe_data, idx>>
                 ELSE /\ pc' = "scan"
                      /\ ffprobe_data' = r.v
                      /\ idx' = 1
                      /\ result' = result
    /\ probeCalled' = TRUE
    /\ UNCHANGED <<path_exists, tag, tagCalled, video_stream_data, audio_stream_data,
                   ffprobe_duration, seconds, friendly>>

\* Lines 155-186: one iteration of the loop over the streams.
ScanStream ==
    /\ pc = "scan"
    /\ idx <= Len(Streams(ffprobe_data))
    /\ LET r == ProcessStream(Streams(ffprobe_data)[idx], video_stream_data, audio_stream_data)
       IN  IF r.exc # ""
           THEN /\ pc' = "done"
                /\ result' = Raised(r.exc)
                /\ UNCHANGED <<idx, video_stream_data, audio_stream_data>>
           ELSE /\ idx' = idx + 1
                /\ video_stream_data' = r.video
                /\ audio_stream_data' = r.audio
                /\ UNCHANGED <<pc, result>>
    /\ UNCHANGED <<path_exists, tag, tagCalled, probeCalled, probeOutcome, ffprobe_data,
                   ffprobe_duration, seconds, friendly>>

\* Lines 189-219, after the loop: the try statement. Its body parses the
\* format-level duration, and any exception of that is caught and turned into
\* "return None" (lines 191-195). Its else block (lines 196-219) reconciles
\* the duration and builds the record; no handler covers the else block, so
\* what it raises leaves get_video_metadata.
Consolidate ==
    /\ pc = "scan"
    /\ idx > Len(Streams(ffprobe_data))
    /\ LET p == PyFloat(Get(FormatInfo(ffprobe_data).duration, Num(0)))
       IN  IF p.exc # ""
           THEN /\ result' = Returned(None)
                /\ UNCHANGED <<ffprobe_duration, seconds, friendly>>
           ELSE LET overall == ReconcileDuration(p.v, tag)
                    r == BuildRecord(FormatInfo(ffprobe_data), tag, overall,
                                     video_stream_data, audio_stream_data)
                IN  /\ ffprobe_duration' = p.v
                    /\ seconds' = overall
                    /\ friendly' = ConvertDuration(overall)
                    /\ result' = IF r.exc # "" THEN Raised(r.exc) ELSE Returned(r.v)
    /\ pc' = "done"
    /\ UNCHANGED <<path_exists, tag, tagCalled, probeCalled, probeOutcome, ffprobe_data,
                   idx, video_stream_data, audio_stream_data>>

Next == Validate \/ ReadTags \/ Probe \/ ScanStream \/ Consolidate

Spec == Init /\ [][Next]_vars

\* ------------------------------------- _convert_duration on its own inputs

\* Durations past MaxTenths: a day less a tenth, a day, 99:59:59.5,
\* 99:59:59.6 and a hundred hours.
ExtraDurations == {863999, 864000, 3599995, 3599996, 3600000}

DurationInputs == (0..MaxTenths) \cup ExtraDurations

InitFmt ==
    /\ pc = "fmt_call"
    /\ seconds \in DurationInputs
    /\ friendly = <<>>
    /\ path_exists = TRUE
    /\ tag = None
    /\ tagCalled = FALSE
    /\ probeCalled = FALSE
    /\ probeOutcome = ""
    /\ ffprobe_data = EmptyDict
    /\ idx = 0
    /\ video_stream_data = None
    /\ audio_stream_data = None
    /\ ffprobe_duration = 0
    /\ result = Pending

\* A call of _convert_duration (lines 97-102).
Convert ==
    /\ pc = "fmt_call"
    /\ friendly' = ConvertDuration(seconds)
    /\ pc' = "fmt_return"
    /\ UNCHANGED <<path_exists, tag, tagCalled, probeCalled, probeOutcome, ffprobe_data,
                   idx, video_stream_data, audio_stream_data, ffprobe_duration, result,
                   seconds>>

NextFmt == Convert

SpecFmt == InitFmt /\ [][NextFmt]_vars

\* =================================================================== claims

Done == pc = "done"

\* The call returned a record.
HasRecord == Done /\ result.kind = "returned" /\ result.value # None

\* The call returned None.
ReturnedNone == Done /\ result.kind = "returned" /\ result.value = None

\* C1: with a path that does not exist, get_video_metadata ends by raising
\* FileNotFoundError (not by returning None), and at no point of the call has
\* the tag reader or the probing tool been invoked.
C1_MissingPathAborts ==
    ~path_exists =>
        /\ ~tagCalled
        /\ ~probeCalled
        /\ pc \in {"start", "done"}
        /\ Done => result = Raised("FileNotFoundError")

C1_Witness == ~path_exists /\ Done /\ result.kind = "raised" /\ ~tagCalled /\ ~probeCalled

\* C2: the record's duration_seconds is the probe's format-level duration p
\* when p > 0; otherwise the tag reader's duration t when the tag reader
\* succeeded and t is not null; otherwise 0.0. (125.0, 60.0) gives 125.0,
\* ("0", 42.5) gives 42.5, ("0", no tag) gives 0.0.
C2_DurationPrecedence ==
    HasRecord =>
        LET d == result.value.duration_seconds
            f == FormatInfo(ffprobe_data).duration
            p == ffprobe_duration
        IN  /\ d = IF p > 0 THEN p
                   ELSE IF tag # None /\ tag.duration # Null THEN tag.duration.n
                   ELSE 0
            /\ (f = Str(<<"1", "2", "5", ".", "0">>) /\ tag # None /\ tag.duration = Flt(600))
                  => d = 1250
            /\ (f = Str(<<"0">>) /\ tag # None /\ tag.duration = Flt(425)) => d = 425
            /\ (f = Str(<<"0">>) /\ tag = None) => d = 0
            /\ (f = Str(<<"-", "5", ".", "0">>) /\ tag # None /\ tag.duration = Flt(425)) => d = 425

C2_Witness ==
    /\ HasRecord
    /\ FormatInfo(ffprobe_data).duration = Str(<<"0">>)
    /\ tag # None
    /\ tag.duration = Flt(425)
    /\ result.value.duration_seconds = 425

\* C5: for d >= 0 the formatter's string is HH:MM:SS with HH = floor(d / 3600)
\* in two digits or more (never wrapped, never padded past two digits),
\* MM = floor((d mod 3600) / 60) in two digits and at most 59, SS = d mod 60
\* rounded to the nearest integer in two digits and at most 60, a rounded 60
\* not carried into the minutes; 3725.4 gives 01:02:05, 59.6 gives 00:00:60.
C5_Format ==
    pc = "fmt_return" =>
        LET parts == Split(friendly, ":")
        IN  /\ Len(parts) = 3
            /\ \A i \in 1..3 : AllDigits(parts[i])
            /\ Len(parts[1]) >= 2
            /\ Len(parts[1]) > 2 => parts[1][1] # "0"
            /\ Len(parts[2]) = 2
            /\ Len(parts[3]) = 2
            /\ LET HH == ParseNat(parts[1])
                   MM == ParseNat(parts[2])
                   SS == ParseNat(parts[3])
                   rem == seconds - 36000 * HH - 600 * MM
               IN  /\ 36000 * HH <= seconds
                   /\ seconds < 36000 * (HH + 1)
                   /\ MM <= 59
                   /\ 0 <= rem
                   /\ rem < 600
                   /\ SS <= 60
                   /\ 10 * SS - rem <= 5
                   /\ rem - 10 * SS <= 5
                   /\ rem > 595 => SS = 60
            /\ seconds = 37254 => friendly = <<"0", "1", ":", "0", "2", ":", "0", "5">>
            /\ seconds = 596 => friendly = <<"0", "0", ":", "0", "0", ":", "6", "0">>

C5_Witness ==
    /\ pc = "fmt_return"
    /\ seconds = 596
    /\ friendly = <<"0", "0", ":", "0", "0", ":", "6", "0">>

\* The streams sequence the loop runs over.
S == Streams(ffprobe_data)

\* The loop has examined entries 1..Examined.
Examined == IF pc = "scan" \/ (Done /\ idx > 0) THEN idx - 1 ELSE 0

IsVideo(s) == s.codec_type = Str(VideoType)
IsAudio(s) == s.codec_type = Str(AudioType)

\* What building the sub-record of each stream sample gives.
VideoBuilt == [s \in StreamSamples |-> BuildVideo(s)]
AudioBuilt == [s \in StreamSamples |-> BuildAudio(s)]

\* The entry is of a mapped type and its sub-record cannot be built.
Malformed(s) ==
    \/ IsVideo(s) /\ VideoBuilt[s].exc # ""
    \/ IsAudio(s) /\ AudioBuilt[s].exc # ""

WellFormedVideo(s) == IsVideo(s) /\ VideoBuilt[s].exc = ""
WellFormedAudio(s) == IsAudio(s) /\ AudioBuilt[s].exc = ""

\* The least index from i on at which the sequence of booleans is true, or 0.
RECURSIVE FirstTrue(_, _)
FirstTrue(flags, i) ==
    IF i > Len(flags) THEN 0
    ELSE IF flags[i] THEN i
    ELSE FirstTrue(flags, i + 1)

\* The least index in 1..n whose entry of the streams satisfies P, or 0.
FirstIn(n, P(_)) == LET s == S IN FirstTrue([i \in 1..n |-> P(s[i])], 1)

ProbeFailed == probeCalled /\ probeOutcome # ""

\* C4: when the probing tool fails (non-zero exit or unparseable output) on an
\* existing path with a succeeding tag reader, get_video_metadata still returns
\* a record, with no video_stream, no audio_stream and overall_bitrate_kbps 0.
C4_ProbeFailureTolerated ==
    (Done /\ path_exists /\ ProbeFailed /\ tag # None) =>
        /\ HasRecord
        /\ result.value.video_stream = None
        /\ result.value.audio_stream = None
        /\ result.value.overall_bitrate_kbps = 0

\* The call got as far as the else block of the try (lines 196-219).
Assembled ==
    /\ Done
    /\ path_exists
    /\ probeOutcome # "JSONDecodeError"
    /\ FormatInfo(ffprobe_data).duration # Str(NA)

\* What C6 says overall_bitrate_kbps is, by the format-level bit_rate field.
C6_Kbps(b) ==
    CASE b = Num(128999) -> 128
      [] b = Str(<<"2", "5", "0", "0">>) -> 2
      [] b = Str(<<"1", "5", "0", "0", ".", "5">>) -> 1
      [] OTHER -> 0

\* C6: overall_bitrate_kbps is floor(bit_rate / 1000) of the format-level
\* bit_rate when it is present and numeric, 0 when it is absent or not
\* numeric, and in each of these cases a record is produced.
C6_BitrateOrZero ==
    (Assembled /\ FormatInfo(ffprobe_data).tags \in {Absent, Dict(1)}) =>
        /\ HasRecord
        /\ result.value.overall_bitrate_kbps = C6_Kbps(FormatInfo(ffprobe_data).bit_rate)

\* C7: on an existing path, when the format-level duration does not parse or
\* the record fails the schema's validation, the call returns None.
C7_FailureReturnsNone ==
    LET f == FormatInfo(ffprobe_data)
    IN  /\ (Done /\ path_exists /\ probeOutcome # "JSONDecodeError" /\ f.duration = Str(NA))
              => ReturnedNone
        /\ (Assembled /\ f.tags = Str(<<"x">>)
                /\ f.bit_rate \in {Absent, Num(128999), Str(<<"2", "5", "0", "0">>)})
              => ReturnedNone

\* C8: the call ends by raising FileNotFoundError (exactly when the path does
\* not exist), by returning a record, or by returning None, and in no other way.
C8_ThreeOutcomes ==
    Done =>
        \/ ~path_exists /\ result = Raised("FileNotFoundError")
        \/ path_exists /\ HasRecord
        \/ path_exists /\ ReturnedNone

\* C9: a malformed stream entry builds no sub-record and does not stop the
\* scan: the scan never ends the call, every entry is examined before the
\* call goes on, a sub-record is never built from a malformed entry, and a
\* well-formed entry of the other type after a malformed one still gives its
\* sub-record when no sub-record of its type was built before it.
C9_MalformedEntrySkipped ==
    /\ pc = "scan" => result = Pending
    /\ (Done /\ probeCalled /\ probeOutcome # "JSONDecodeError") => Examined = Len(S)
    /\ \A i \in 1..Examined :
          Malformed(S[i]) =>
              /\ (IsVideo(S[i]) /\ \A j \in 1..Examined : j # i => ~IsVideo(S[j]))
                    => video_stream_data = None
              /\ (IsAudio(S[i]) /\ \A j \in 1..Examined : j # i => ~IsAudio(S[j]))
                    => audio_stream_data = None
              /\ \A j \in (i + 1)..Examined :
                    /\ (IsVideo(S[i]) /\ WellFormedAudio(S[j]) /\ FirstIn(j, WellFormedAudio) = j)
                          => audio_stream_data = AudioBuilt[S[j]].v
                    /\ (IsAudio(S[i]) /\ WellFormedVideo(S[j]) /\ FirstIn(j, WellFormedVideo) = j)
                          => video_stream_data = VideoBuilt[S[j]].v

C9_Witness ==
    /\ HasRecord
    /\ S = <<VideoBadFrameRate, AudioFull>>
    /\ result.value.video_stream = None
    /\ result.value.audio_stream # None
    /\ result.value.audio_stream.codec_name = <<"a", "a", "c">>

\* The sub-record of a video entry with no field but its type.
DefaultVideo ==
    [k |-> "VideoStreamMetadata", codec_name |-> NA, profile |-> NA, width |-> 0,
     height |-> 0, bit_rate |-> 0, avg_frame_rate |-> [num |-> 0, den |-> 1],
     pixel_format |-> NA]

\* C10: for the first video-typed stream, "N/D" gives the frame rate N / D
\* when D is not zero and 0.0 when D is zero ("0/0" too), a missing
\* avg_frame_rate gives 0.0; with D zero or the field missing the sub-record
\* is still built, missing fields taking 0 and "N/A".
C10_FrameRate ==
    LET fv == FirstIn(Examined, IsVideo)
        v == video_stream_data
    IN  fv # 0 =>
            /\ S[fv] \in {VideoZeroRate, VideoBare} => v = DefaultVideo
            /\ S[fv] = VideoZeroDen =>
                  /\ v # None
                  /\ v.avg_frame_rate = [num |-> 0, den |-> 1]
                  /\ v.codec_name = <<"v", "p", "9">>
                  /\ v.width = 640
                  /\ v.height = 480
                  /\ v.bit_rate = 900
            /\ S[fv] = VideoFull =>
                  /\ v # None
                  /\ v.avg_frame_rate.num * 1001 = 30000 * v.avg_frame_rate.den
                  /\ v.avg_frame_rate.den > 0
                  /\ v.bit_rate = 5000

C10_Witness ==
    /\ Examined >= 1
    /\ S[1] = VideoZeroRate
    /\ video_stream_data = DefaultVideo

====
